---- MODULE Spec2Model ----
(***************************************************************************)
(* Model of src/html.rs: the HTML side-by-side renderer of difftastic.     *)
(*                                                                         *)
(*   apply_line    splits one line into styled runs                        *)
(*   apply_styles  groups MatchedPos by line and derives CSS classes       *)
(*   print         pairs lines per hunk, renders and writes the document   *)
(*                                                                         *)
(* A Rust &str is a sequence of UTF-8 bytes.  Indexing a &str with a range *)
(* (line[a..b]) takes BYTE offsets and panics when an offset is past the   *)
(* end or not on a character boundary.  Strings are therefore modelled as  *)
(* sequences of byte values, and columns stay plain integers.              *)
(***************************************************************************)
EXTENDS Integers, Sequences, FiniteSets, TLC

\* ------------------------------------------------------------------ bounds
MaxLineLen == 3      \* codepoints per line
MaxSpans == 2        \* style spans per line handed to apply_line
MaxLineNo == 1       \* largest LineNumber of a side
MaxMps == 3          \* MatchedPos per side handed to apply_styles
MaxHunks == 2        \* hunks handed to print
MaxPaired == 3       \* aligned pairs over all the hunks of one print call

\* ------------------------------------------------------- strings and UTF-8
\* The alphabet: two ASCII characters and one two-byte character (U+00E9).
Chars == {"a", "b", "e_acute"}

\* UTF-8 encoding of one character.
Encode(c) ==
    CASE c = "a" -> <<97>>
      [] c = "b" -> <<98>>
      [] c = "e_acute" -> <<195, 169>>

RECURSIVE Utf8(_)
\* UTF-8 encoding of a sequence of characters: the bytes of the &str.
Utf8(cs) == IF cs = <<>> THEN <<>> ELSE Encode(Head(cs)) \o Utf8(Tail(cs))

\* A UTF-8 continuation byte is 10xxxxxx.
IsContinuation(b) == b >= 128 /\ b < 192

\* str::is_char_boundary: 0, len, or the start of a character.
IsCharBoundary(s, i) ==
    \/ i = 0
    \/ i = Len(s)
    \/ i > 0 /\ i < Len(s) /\ ~IsContinuation(s[i + 1])

\* lines::codepoint_len: number of characters (line.chars().count()).
codepoint_len(s) == Cardinality({i \in 1..Len(s) : ~IsContinuation(s[i])})

\* The result of an operation that may panic.
Ok(v) == [ok |-> TRUE, val |-> v]
Panic == [ok |-> FALSE, val |-> <<>>]

\* line[a..b] on a &str: byte offsets, panics off a character boundary.
Slice(s, a, b) ==
    IF a <= b /\ b <= Len(s) /\ IsCharBoundary(s, a) /\ IsCharBoundary(s, b)
    THEN Ok(SubSeq(s, a + 1, b))
    ELSE Panic

\* line[a..] on a &str.
SliceFrom(s, a) == Slice(s, a, Len(s))

\* ------------------------------------------------------------- apply_line
\* One output run: (String, Vec<&'static str>).
Run(text, classes) == [text |-> text, classes |-> classes]

\* Mutant: the trailing run is pushed when offset <= codepoint_len(line).
TrailingRun_LessEq(line, offset, res) ==
    IF offset <= codepoint_len(line)
    THEN LET t == SliceFrom(line, offset)
         IN  IF t.ok THEN Ok(Append(res, Run(t.val, <<>>))) ELSE Panic
    ELSE Ok(res)

\* The trailing run of apply_line, after its loop.
TrailingRun(line, offset, res) ==
    IF offset < codepoint_len(line)
    THEN LET t == SliceFrom(line, offset)
         IN  IF t.ok THEN Ok(Append(res, Run(t.val, <<>>))) ELSE Panic
    ELSE Ok(res)

RECURSIVE ApplyLineLoop(_, _, _, _, _)
\* The for loop of apply_line from span number i on, with the cursor at
\* offset and the runs pushed so far in res, and then the trailing run.
ApplyLineLoop(line, styles, i, offset, res) ==
    IF i > Len(styles)
    THEN TrailingRun(line, offset, res)
    ELSE LET span == styles[i].span
             classes == styles[i].classes
             gap == IF offset < span.start_col
                    THEN Slice(line, offset, span.start_col)
                    ELSE Ok(<<>>)
             res1 == IF offset < span.start_col
                     THEN Append(res, Run(gap.val, <<>>))
                     ELSE res
             body == Slice(line, span.start_col, span.end_col)
         IN  IF ~gap.ok \/ ~body.ok
             THEN Panic
             ELSE ApplyLineLoop(line, styles, i + 1, span.end_col,
                                Append(res1, Run(body.val, classes)))

apply_line(line, styles) == ApplyLineLoop(line, styles, 1, 0, <<>>)

\* ----------------------------------------------------------- apply_styles
\* positions::SingleLineSpan
SingleLineSpan(ln, s, e) == [line |-> ln, start_col |-> s, end_col |-> e]

\* syntax::AtomKind
AtomKinds == {"Normal", "String", "Type", "Comment", "Keyword"}

\* syntax::TokenKind: Atom(AtomKind), or the variant that is not an Atom.
Atom(k) == [variant |-> "Atom", atom |-> k]
Delimiter == [variant |-> "Delimiter", atom |-> "None"]
TokenKinds == {Atom(k) : k \in AtomKinds} \cup {Delimiter}

\* syntax::MatchKind: every variant carries a highlight.
MatchKindTags == {"UnchangedToken", "Novel", "NovelLinePart", "NovelWord"}
MatchKind(t, h) == [tag |-> t, highlight |-> h]

\* syntax::MatchedPos
MatchedPos(kind, pos) == [kind |-> kind, pos |-> pos]

\* Mutant: NovelLinePart falls into the Novel arm.
NoveltyClasses_LinePartNovel(is_lhs, kind) ==
    CASE kind.tag \in {"Novel", "NovelWord", "NovelLinePart"} ->
            <<IF is_lhs THEN "novel-lhs" ELSE "novel-rhs">>
      [] kind.tag = "UnchangedToken" -> <<>>

\* The first match of apply_styles: the novelty class of a MatchKind.
NoveltyClasses(is_lhs, kind) ==
    CASE kind.tag \in {"Novel", "NovelWord"} ->
            <<IF is_lhs THEN "novel-lhs" ELSE "novel-rhs">>
      [] kind.tag = "UnchangedToken" -> <<>>
      [] kind.tag = "NovelLinePart" -> <<>>

\* The second match: the highlight carried by the MatchKind.
Highlight(kind) ==
    CASE kind.tag = "UnchangedToken" -> kind.highlight
      [] kind.tag = "Novel" -> kind.highlight
      [] kind.tag = "NovelLinePart" -> kind.highlight
      [] kind.tag = "NovelWord" -> kind.highlight

\* Mutant: AtomKind::Type gets the string class.
HighlightClasses_TypeAsString(highlight) ==
    IF highlight.variant = "Atom"
    THEN CASE highlight.atom = "Normal" -> <<>>
           [] highlight.atom = "String" -> <<"pl-s">>
           [] highlight.atom = "Type" -> <<"pl-s">>
           [] highlight.atom = "Comment" -> <<"pl-c">>
           [] highlight.atom = "Keyword" -> <<"pl-k">>
    ELSE <<>>

\* The third match: the class of a highlight.
HighlightClasses(highlight) ==
    IF highlight.variant = "Atom"
    THEN CASE highlight.atom = "Normal" -> <<>>
           [] highlight.atom = "String" -> <<"pl-s">>
           [] highlight.atom = "Type" -> <<"pl-k">>
           [] highlight.atom = "Comment" -> <<"pl-c">>
           [] highlight.atom = "Keyword" -> <<"pl-k">>
    ELSE <<>>

\* Mutant: the highlight class is pushed before the novelty class.
SpanClasses_HighlightFirst(is_lhs, mp) ==
    HighlightClasses(Highlight(mp.kind)) \o NoveltyClasses(is_lhs, mp.kind)

\* span_classes of one MatchedPos, as pushed in order.
SpanClasses(is_lhs, mp) ==
    NoveltyClasses(is_lhs, mp.kind) \o HighlightClasses(Highlight(mp.kind))

\* Mutant: line_styles.insert(line, vec![entry]), which forgets the line's
\* earlier entries.
PushEntry_Insert(line_styles, ln, entry) ==
    [k \in DOMAIN line_styles \cup {ln} |->
        IF k = ln THEN <<entry>> ELSE line_styles[k]]

\* line_styles.entry(line).or_insert_with(Vec::new).push(entry)
PushEntry(line_styles, ln, entry) ==
    IF ln \in DOMAIN line_styles
    THEN [line_styles EXCEPT ![ln] = Append(@, entry)]
    ELSE [k \in DOMAIN line_styles \cup {ln} |->
             IF k = ln THEN <<entry>> ELSE line_styles[k]]

RECURSIVE ApplyStylesLoop(_, _, _, _)
\* The for loop of apply_styles from MatchedPos number i on.
ApplyStylesLoop(is_lhs, mps, i, line_styles) ==
    IF i > Len(mps)
    THEN line_styles
    ELSE LET mp == mps[i]
             line_pos == mp.pos
         IN  ApplyStylesLoop(is_lhs, mps, i + 1,
                 PushEntry(line_styles, line_pos.line,
                           [span |-> line_pos, classes |-> SpanClasses(is_lhs, mp)]))

\* HashMap::new(): the map with no key.
EmptyMap == [k \in {} |-> <<>>]

apply_styles(is_lhs, mps) == ApplyStylesLoop(is_lhs, mps, 1, EmptyMap)

\* ------------------------------------------------------------------ print
\* Option<T>: None is the empty sequence, Some(x) the sequence of x alone.
None == <<>>
Some(x) == <<x>>

\* side_by_side::lines_with_novel, one side: the lines holding a MatchedPos
\* of novel kind.
LinesWithNovel(mps) ==
    {mps[i].pos.line : i \in {j \in 1..Len(mps) : mps[j].kind.tag # "UnchangedToken"}}

\* line_styles.get(&ln).unwrap_or(&empty_styles)
GetOrEmpty(line_styles, ln) ==
    IF ln \in DOMAIN line_styles THEN line_styles[ln] ELSE <<>>

\* lhs_num.map(|ln| (ln, apply_line(lines[ln.0], styles of ln))), for one
\* side: indexing lines past its end panics, and so does apply_line.
RenderSide(lines, line_styles, num) ==
    IF num = None
    THEN Ok(None)
    ELSE LET ln == num[1]
         IN  IF ln >= Len(lines)
             THEN Panic
             ELSE LET styled == apply_line(lines[ln + 1], GetOrEmpty(line_styles, ln))
                  IN  IF styled.ok
                      THEN Ok(Some([num |-> ln, styled |-> styled.val]))
                      ELSE Panic

\* Mutant: a row equal to one already paired is not pushed again.
PushPaired_Dedup(paired, lhs, rhs) ==
    IF \E k \in 1..Len(paired) : paired[k] = [lhs |-> lhs, rhs |-> rhs]
    THEN paired
    ELSE Append(paired, [lhs |-> lhs, rhs |-> rhs])

\* paired_lines.push((lhs, rhs))
PushPaired(paired, lhs, rhs) == Append(paired, [lhs |-> lhs, rhs |-> rhs])

\* SummaryTemplate { display_path, paired_lines, lhs_lines_with_novel,
\* rhs_lines_with_novel }
SummaryTemplate(path, paired, lhs_novel, rhs_novel) ==
    [display_path |-> path, paired_lines |-> paired,
     lhs_lines_with_novel |-> lhs_novel, rhs_lines_with_novel |-> rhs_novel]

\* Mutant: println!("{}", template.render().unwrap_or_default())
Println_UnwrapOrDefault(out, rendered) ==
    IF rendered.ok THEN Append(out, rendered.val) ELSE Append(out, <<>>)

\* println!("{}", template.render().unwrap()): the output channel after the
\* statement; unwrap panics before anything is written.
Println(out, rendered) ==
    IF rendered.ok THEN Append(out, rendered.val) ELSE out

\* ----------------------------------------------------------------- state
VARIABLES
    al_line,     \* apply_line: the line argument (UTF-8 bytes)
    al_styles,   \* apply_line: the styles argument
    al_out,      \* apply_line: Ok(runs) or Panic
    al_pc,       \* "ready", "returned" or "panicked"
    st_is_lhs,   \* apply_styles: the is_lhs argument
    st_mps,      \* apply_styles: the mps argument
    st_out,      \* apply_styles: the returned map
    st_pc,       \* "ready" or "returned"
    hunks,            \* print: the hunks argument (opaque hunk ids)
    lhs_lines,        \* print: split_on_newlines(lhs_src)
    rhs_lines,        \* print: split_on_newlines(rhs_src)
    lhs_mps,          \* print: the lhs_mps argument
    rhs_mps,          \* print: the rhs_mps argument
    lhs_line_styles,  \* print: apply_styles(true, lhs_mps)
    rhs_line_styles,  \* print: apply_styles(false, rhs_mps)
    paired_lines,     \* print: the rows pushed so far
    aligned_log,      \* what matched_lines_for_hunk returned, per hunk taken
    aligned_lines,    \* the pairs of the current hunk not yet iterated
    pc,               \* position of the print call
    stdout            \* the output channel: one element per write

al_vars == <<al_line, al_styles, al_out, al_pc>>
st_vars == <<st_is_lhs, st_mps, st_out, st_pc>>
in_vars == <<hunks, lhs_lines, rhs_lines, lhs_mps, rhs_mps>>
pr_vars == <<in_vars, lhs_line_styles, rhs_line_styles, paired_lines,
             aligned_log, aligned_lines, pc, stdout>>
vars == <<al_vars, st_vars, pr_vars>>

\* No call of print is in progress or asked for.
PrintIdle ==
    /\ hunks = <<>>
    /\ lhs_lines = <<>>
    /\ rhs_lines = <<>>
    /\ lhs_mps = <<>>
    /\ rhs_mps = <<>>
    /\ lhs_line_styles = EmptyMap
    /\ rhs_line_styles = EmptyMap
    /\ paired_lines = <<>>
    /\ aligned_log = <<>>
    /\ aligned_lines = <<>>
    /\ pc = "idle"
    /\ stdout = <<>>

\* No call of apply_line is in progress or asked for.
LineIdle ==
    /\ al_line = <<>>
    /\ al_styles = <<>>
    /\ al_out = Ok(<<>>)
    /\ al_pc = "idle"

\* No call of apply_styles is in progress or asked for.
StylesIdle ==
    /\ st_is_lhs = FALSE
    /\ st_mps = <<>>
    /\ st_out = EmptyMap
    /\ st_pc = "idle"

\* ------------------------------------------------- inputs of apply_line
RECURSIVE SeqsUpTo(_, _)
\* All sequences over S of length at most n.
SeqsUpTo(S, n) ==
    IF n = 0 THEN {<<>>}
    ELSE LET shorter == SeqsUpTo(S, n - 1)
         IN  shorter \cup {Append(q, x) : q \in {r \in shorter : Len(r) = n - 1}, x \in S}

\* Every line of at most MaxLineLen characters, as its UTF-8 bytes.
Lines == {Utf8(cs) : cs \in SeqsUpTo(Chars, MaxLineLen)}

\* The class lists a span is drawn with.
ClassLists == {<<>>, <<"novel-lhs", "pl-k">>}

\* The contract of apply_line on its styles: spans ascending by start_col,
\* non-overlapping, start_col <= end_col <= codepoint_len(line).
WellFormed(line, styles) ==
    /\ \A i \in 1..Len(styles) :
          /\ styles[i].span.start_col <= styles[i].span.end_col
          /\ styles[i].span.end_col <= codepoint_len(line)
    /\ \A i \in 1..(Len(styles) - 1) :
          styles[i].span.end_col <= styles[i + 1].span.start_col

\* Candidate (span, classes) entries for a line of n codepoints.
StyleEntries(n) ==
    {[span |-> SingleLineSpan(0, s, e), classes |-> c] :
        s \in 0..n, e \in 0..n, c \in ClassLists}

\* Every well-formed styles list of at most MaxSpans spans for line.
StylesFor(line) ==
    {st \in SeqsUpTo(StyleEntries(codepoint_len(line)), MaxSpans) :
        WellFormed(line, st)}

InitLine ==
    /\ al_line \in Lines
    /\ al_styles \in StylesFor(al_line)
    /\ al_out = Ok(<<>>)
    /\ al_pc = "ready"
    /\ StylesIdle
    /\ PrintIdle

\* One call of apply_line on the drawn arguments.
ApplyLineCall ==
    /\ al_pc = "ready"
    /\ al_out' = apply_line(al_line, al_styles)
    /\ al_pc' = IF al_out'.ok THEN "returned" ELSE "panicked"
    /\ UNCHANGED <<al_line, al_styles, st_vars, pr_vars>>

NextLine == ApplyLineCall

SpecLine == InitLine /\ [][NextLine]_vars

\* ------------------------------------------------- claims on apply_line
RECURSIVE ConcatText(_)
\* The texts of a sequence of runs, concatenated in order.
ConcatText(runs) ==
    IF runs = <<>> THEN <<>> ELSE Head(runs).text \o ConcatText(Tail(runs))

\* Byte offset of codepoint column col in s.
ByteOffset(s, col) ==
    CHOOSE i \in 0..Len(s) :
        IsCharBoundary(s, i) /\ codepoint_len(SubSeq(s, 1, i)) = col

\* The codepoints [a, b) of s, as bytes.
CodepointSlice(s, a, b) == SubSeq(s, ByteOffset(s, a) + 1, ByteOffset(s, b))

\* Strictly increasing maps of the spans 1..n into the run positions 1..m.
Embeddings(n, m) ==
    {f \in [1..n -> 1..m] : \A i \in 1..n, j \in 1..n : i < j => f[i] < f[j]}

\* C1: for every line and every well-formed styles list, the texts of the
\* runs apply_line returns concatenate to exactly the line.
C1_RoundTrip ==
    al_pc = "returned" => ConcatText(al_out.val) = al_line

\* C2: apply_line slices by codepoint offset in one unit throughout: the
\* call never slices inside a multi-byte character, and the run of each span
\* is exactly the codepoints [start_col, end_col) of the line.
C2_CodepointSlices ==
    al_pc # "ready" =>
        /\ al_pc = "returned"
        /\ \E f \in Embeddings(Len(al_styles), Len(al_out.val)) :
              \A i \in 1..Len(al_styles) :
                  al_out.val[f[i]] =
                      Run(CodepointSlice(al_line, al_styles[i].span.start_col,
                                         al_styles[i].span.end_col),
                          al_styles[i].classes)

\* C10: for every line and every well-formed styles list, apply_line gives
\* exactly one run per span, in order and with that span's classes, and
\* every other run is untagged and non-empty.
C10_RunsPerSpan ==
    al_pc # "ready" =>
        /\ al_pc = "returned"
        /\ \E f \in Embeddings(Len(al_styles), Len(al_out.val)) :
              /\ \A i \in 1..Len(al_styles) :
                    al_out.val[f[i]].classes = al_styles[i].classes
              /\ \A k \in 1..Len(al_out.val) :
                    (\A i \in 1..Len(al_styles) : f[i] # k) =>
                        /\ al_out.val[k].classes = <<>>
                        /\ al_out.val[k].text # <<>>

\* ------------------------------------------------ inputs of apply_styles
\* Every MatchKind: each variant with each highlight.
MatchKinds == {MatchKind(t, h) : t \in MatchKindTags, h \in TokenKinds}

\* Every MatchedPos at column 0 of a line.
MatchedPosAll ==
    {MatchedPos(k, SingleLineSpan(ln, 0, 1)) : k \in MatchKinds, ln \in 0..MaxLineNo}

\* MatchedPos of two kinds at two columns of a line, for the longer lists.
MatchedPosSome ==
    {MatchedPos(k, SingleLineSpan(ln, c, c + 1)) :
        k \in {MatchKind("Novel", Atom("Keyword")),
               MatchKind("UnchangedToken", Atom("Normal"))},
        ln \in 0..MaxLineNo, c \in {0, 1}}

\* The mps lists drawn: every single MatchedPos, and every list of at most
\* MaxMps of the MatchedPosSome.
MpsInputs ==
    {<<mp>> : mp \in MatchedPosAll} \cup SeqsUpTo(MatchedPosSome, MaxMps)

InitStyles ==
    /\ st_is_lhs \in BOOLEAN
    /\ st_mps \in MpsInputs
    /\ st_out = EmptyMap
    /\ st_pc = "ready"
    /\ LineIdle
    /\ PrintIdle

\* One call of apply_styles on the drawn arguments.
ApplyStylesCall ==
    /\ st_pc = "ready"
    /\ st_out' = apply_styles(st_is_lhs, st_mps)
    /\ st_pc' = "returned"
    /\ UNCHANGED <<st_is_lhs, st_mps, al_vars, pr_vars>>

NextStyles == ApplyStylesCall

SpecStyles == InitStyles /\ [][NextStyles]_vars

\* ----------------------------------------------- claims on apply_styles
\* The elements of a sequence.
Range(q) == {q[k] : k \in 1..Len(q)}

\* The entry of st_out made for MatchedPos number i of st_mps: the n-th of
\* its line's list when it is the n-th MatchedPos of that line.
EntryOf(i) ==
    st_out[st_mps[i].pos.line]
          [Cardinality({j \in 1..i : st_mps[j].pos.line = st_mps[i].pos.line})]

NoveltyTags == {"novel-lhs", "novel-rhs"}

\* C3: a MatchedPos gets "novel-lhs" exactly when is_lhs and its kind is Novel
\* or NovelWord, and "novel-rhs" exactly when not is_lhs and its kind is Novel
\* or NovelWord; UnchangedToken and NovelLinePart get no novelty tag.
C3_StyleFidelity ==
    st_pc = "returned" =>
        \A i \in 1..Len(st_mps) :
            LET novel == st_mps[i].kind.tag \in {"Novel", "NovelWord"}
                tags == Range(EntryOf(i).classes)
            IN  /\ "novel-lhs" \in tags <=> (st_is_lhs /\ novel)
                /\ "novel-rhs" \in tags <=> (~st_is_lhs /\ novel)

C3_Witness ==
    /\ st_pc = "returned"
    /\ st_is_lhs
    /\ \E i \in 1..Len(st_mps) :
          /\ st_mps[i].kind.tag = "Novel"
          /\ "novel-lhs" \in Range(EntryOf(i).classes)
    /\ \E i \in 1..Len(st_mps) :
          /\ st_mps[i].kind.tag = "UnchangedToken"
          /\ EntryOf(i).classes = <<>>

\* The highlight table: the tag of each TokenKind.
TableTag(h) ==
    IF h = Atom("String") THEN <<"pl-s">>
    ELSE IF h \in {Atom("Type"), Atom("Keyword")} THEN <<"pl-k">>
    ELSE IF h = Atom("Comment") THEN <<"pl-c">>
    ELSE <<>>

\* C4: for a MatchedPos of any MatchKind, the tags other than the novelty
\* tag are the highlight table's tag of the carried TokenKind: none for
\* Atom(Normal) and for a TokenKind that is not an Atom.
C4_HighlightTable ==
    st_pc = "returned" =>
        \A i \in 1..Len(st_mps) :
            SelectSeq(EntryOf(i).classes, LAMBDA c : c \notin NoveltyTags)
                = TableTag(st_mps[i].kind.highlight)

C4_Witness ==
    /\ st_pc = "returned"
    /\ \E i \in 1..Len(st_mps) :
          /\ st_mps[i].kind = MatchKind("NovelLinePart", Atom("Type"))
          /\ EntryOf(i).classes = <<"pl-k">>

\* C9: the tag list of a MatchedPos holds at most two tags, a novelty tag
\* only in first place, a second tag only after a novelty tag, and no tag
\* twice; a right-side Novel Atom(Keyword) gets exactly novel-rhs, pl-k.
C9_NoveltyThenHighlight ==
    st_pc = "returned" =>
        \A i \in 1..Len(st_mps) :
            LET cl == EntryOf(i).classes
            IN  /\ Len(cl) <= 2
                /\ \A k \in 1..Len(cl) : cl[k] \in NoveltyTags => k = 1
                /\ Len(cl) = 2 => cl[1] \in NoveltyTags
                /\ Cardinality(Range(cl)) = Len(cl)
                /\ (~st_is_lhs /\ st_mps[i].kind = MatchKind("Novel", Atom("Keyword")))
                      => cl = <<"novel-rhs", "pl-k">>

C9_Witness ==
    /\ st_pc = "returned"
    /\ ~st_is_lhs
    /\ \E i \in 1..Len(st_mps) :
          /\ st_mps[i].kind = MatchKind("Novel", Atom("Keyword"))
          /\ EntryOf(i).classes = <<"novel-rhs", "pl-k">>

\* The spans of the MatchedPos of line ln, in input order.
SpansOfLine(mps, ln) ==
    LET on == SelectSeq(mps, LAMBDA mp : mp.pos.line = ln)
    IN  [k \in 1..Len(on) |-> on[k].pos]

RECURSIVE SumLen(_, _)
\* The lengths of the lists of map m over the keys ks, added up.
SumLen(m, ks) ==
    IF ks = {} THEN 0
    ELSE LET k == CHOOSE x \in ks : TRUE
         IN  Len(m[k]) + SumLen(m, ks \ {k})

\* C7: the keys of the map are the line numbers that occur in the input; the
\* list of a line holds the spans of that line's MatchedPos in input order,
\* none merged, dropped, duplicated or re-sorted; the lengths add up to the
\* length of the input.
C7_Grouping ==
    st_pc = "returned" =>
        /\ DOMAIN st_out = {st_mps[i].pos.line : i \in 1..Len(st_mps)}
        /\ \A ln \in DOMAIN st_out :
              [k \in 1..Len(st_out[ln]) |-> st_out[ln][k].span]
                  = SpansOfLine(st_mps, ln)
        /\ SumLen(st_out, DOMAIN st_out) = Len(st_mps)

C7_Witness ==
    /\ st_pc = "returned"
    /\ Len(st_mps) = 3
    /\ st_mps[1].pos = SingleLineSpan(1, 1, 2)
    /\ st_mps[2].pos.line = 0
    /\ st_mps[3].pos = SingleLineSpan(1, 0, 1)
    /\ Len(st_out[1]) = 2
    /\ st_out[1][1].span = st_mps[1].pos
    /\ st_out[1][2].span = st_mps[3].pos

\* ------------------------------------------------------- inputs of print
\* One side of a comparison: its lines and its MatchedPos.  The first has
\* an empty line and no MatchedPos at all; the second a MatchedPos on line 0
\* and none on line 1; the third also one on line 1, behind a two-byte
\* character.
SideInputs ==
    {[lines |-> <<Utf8(<<>>), Utf8(<<"e_acute", "a">>)>>,
      mps |-> <<>>],
     [lines |-> <<Utf8(<<"a", "b">>), Utf8(<<"e_acute", "a">>)>>,
      mps |-> <<MatchedPos(MatchKind("Novel", Atom("Keyword")),
                           SingleLineSpan(0, 0, 1))>>],
     [lines |-> <<Utf8(<<"a", "b">>), Utf8(<<"e_acute", "a">>)>>,
      mps |-> <<MatchedPos(MatchKind("Novel", Atom("Keyword")),
                           SingleLineSpan(0, 0, 1)),
                MatchedPos(MatchKind("UnchangedToken", Atom("Normal")),
                           SingleLineSpan(1, 1, 2))>>]}

\* The right sides drawn: no MatchedPos at all, or one on each line.
RhsInputs == {x \in SideInputs : Len(x.mps) # 1}

\* Option<LineNumber> over the lines of one side.
OptLineNumbers(lines) == {None} \cup {Some(ln) : ln \in 0..(Len(lines) - 1)}

\* hunks::matched_lines_for_hunk: any list of (Option<LineNumber>,
\* Option<LineNumber>) over the lines of the two sides, never (None, None).
AlignedPairs ==
    {<<l, r>> : l \in OptLineNumbers(lhs_lines), r \in OptLineNumbers(rhs_lines)}
        \ {<<None, None>>}

InitPrint ==
    /\ hunks \in {[i \in 1..n |-> i] : n \in 0..MaxHunks}
    /\ \E l \in SideInputs, r \in RhsInputs :
          /\ lhs_lines = l.lines
          /\ lhs_mps = l.mps
          /\ rhs_lines = r.lines
          /\ rhs_mps = r.mps
    /\ lhs_line_styles = EmptyMap
    /\ rhs_line_styles = EmptyMap
    /\ paired_lines = <<>>
    /\ aligned_log = <<>>
    /\ aligned_lines = <<>>
    /\ pc = "start"
    /\ stdout = <<>>
    /\ LineIdle
    /\ StylesIdle

\* Lines 104-114 of print: the per-line styles of both sides and the empty
\* paired_lines.
PrintStart ==
    /\ pc = "start"
    /\ lhs_line_styles' = apply_styles(TRUE, lhs_mps)
    /\ rhs_line_styles' = apply_styles(FALSE, rhs_mps)
    /\ paired_lines' = <<>>
    /\ pc' = "hunks"
    /\ UNCHANGED <<al_vars, st_vars, in_vars, aligned_log, aligned_lines, stdout>>

\* Lines 115-116: the outer loop takes the next hunk and asks the aligner
\* for its pairs.
PrintHunk ==
    /\ pc = "hunks"
    /\ aligned_lines = <<>>
    /\ Len(aligned_log) < Len(hunks)
    /\ \E al \in SeqsUpTo(AlignedPairs, MaxPaired - Len(paired_lines)) :
          /\ aligned_log' = Append(aligned_log, al)
          /\ aligned_lines' = al
    /\ UNCHANGED <<al_vars, st_vars, in_vars, lhs_line_styles, rhs_line_styles,
                   paired_lines, pc, stdout>>

\* Lines 117-137: one turn of the inner loop.  A panic of either side's
\* closure ends the call.
PrintPair ==
    /\ pc = "hunks"
    /\ aligned_lines # <<>>
    /\ LET lhs_num == Head(aligned_lines)[1]
           rhs_num == Head(aligned_lines)[2]
           lhs == RenderSide(lhs_lines, lhs_line_styles, lhs_num)
           rhs == RenderSide(rhs_lines, rhs_line_styles, rhs_num)
       IN  IF lhs.ok /\ rhs.ok
           THEN /\ paired_lines' = PushPaired(paired_lines, lhs.val, rhs.val)
                /\ aligned_lines' = Tail(aligned_lines)
                /\ pc' = "hunks"
           ELSE /\ pc' = "panic_line"
                /\ UNCHANGED <<paired_lines, aligned_lines>>
    /\ UNCHANGED <<al_vars, st_vars, in_vars, lhs_line_styles, rhs_line_styles,
                   aligned_log, stdout>>

\* Lines 140-146: build the template, render it and write the document; the
\* rendering engine may fail, and unwrap then panics.
PrintRender ==
    /\ pc = "hunks"
    /\ aligned_lines = <<>>
    /\ Len(aligned_log) = Len(hunks)
    /\ \E engine_ok \in BOOLEAN :
          LET template == SummaryTemplate("display_path", paired_lines,
                              LinesWithNovel(lhs_mps), LinesWithNovel(rhs_mps))
              rendered == IF engine_ok THEN Ok(template) ELSE Panic
          IN  /\ stdout' = Println(stdout, rendered)
              /\ pc' = IF engine_ok THEN "done" ELSE "panic_render"
    /\ UNCHANGED <<al_vars, st_vars, in_vars, lhs_line_styles, rhs_line_styles,
                   paired_lines, aligned_log, aligned_lines>>

NextPrint == PrintStart \/ PrintHunk \/ PrintPair \/ PrintRender

SpecPrint == InitPrint /\ [][NextPrint]_vars

\* ------------------------------------------------------ claims on print
RECURSIVE Flatten(_)
\* The lists of a list, concatenated in order.
Flatten(qs) == IF qs = <<>> THEN <<>> ELSE Head(qs) \o Flatten(Tail(qs))

\* The pairs the loops have gone through: everything the aligner returned
\* for the hunks taken, less the pairs of the current hunk still to come.
Consumed ==
    SubSeq(Flatten(aligned_log), 1,
           Len(Flatten(aligned_log)) - Len(aligned_lines))

\* The line number a row carries on one side, as an Option<LineNumber>.
NumOf(side) == [k \in DOMAIN side |-> side[k].num]

\* The hunks are all taken and their pairs all iterated.
AllHunksProcessed ==
    /\ Len(aligned_log) = Len(hunks)
    /\ aligned_lines = <<>>

\* The rows pushed for hunk number h: those after the rows of the hunks
\* before it.
RowsOfHunk(h) ==
    LET before == Len(Flatten(SubSeq(aligned_log, 1, h - 1)))
    IN  SubSeq(paired_lines, before + 1, before + Len(aligned_log[h]))

\* C5: the rows of paired_lines are, in order and one for one, the pairs the
\* aligner returned, hunk after hunk: every hunk gone through has as many
\* rows as the aligner returned pairs for it, a row has a side exactly when
\* its pair has that line number, and carries that line number; once the
\* loops end this is the concatenation over all the hunks.
C5_PairingCompleteness ==
    /\ Len(paired_lines) = Len(Consumed)
    /\ \A i \in 1..Len(paired_lines) :
          /\ NumOf(paired_lines[i].lhs) = Consumed[i][1]
          /\ NumOf(paired_lines[i].rhs) = Consumed[i][2]
    /\ \A h \in 1..Len(aligned_log) :
          (h < Len(aligned_log) \/ aligned_lines = <<>>) =>
              /\ Len(RowsOfHunk(h)) = Len(aligned_log[h])
              /\ \A i \in 1..Len(aligned_log[h]) :
                    /\ NumOf(RowsOfHunk(h)[i].lhs) = aligned_log[h][i][1]
                    /\ NumOf(RowsOfHunk(h)[i].rhs) = aligned_log[h][i][2]
    /\ pc \in {"done", "panic_render"} =>
          /\ AllHunksProcessed
          /\ Len(paired_lines) = Len(Flatten(aligned_log))

C5_Witness ==
    /\ pc = "done"
    /\ Len(hunks) = 2
    /\ Len(aligned_log[1]) = 2
    /\ Len(aligned_log[2]) = 1
    /\ aligned_log[1][1] = <<Some(1), None>>
    /\ aligned_log[1][2] = <<Some(0), Some(0)>>
    /\ aligned_log[2][1] = <<Some(1), None>>
    /\ Len(paired_lines) = 3
    /\ paired_lines[1] = paired_lines[3]

\* The rendering of a line that has no entry in the styles map, as amended:
\* the whole line as one untagged run, and no run for the empty line.
UnstyledRuns(line) == IF line = <<>> THEN <<>> ELSE <<Run(line, <<>>)>>

\* The sides of the rows pushed whose line has no entry in the styles map,
\* each as the line's text and the styled line made of it.
UnstyledSides ==
    {[line |-> lhs_lines[paired_lines[i].lhs[1].num + 1],
      styled |-> paired_lines[i].lhs[1].styled] :
        i \in {k \in 1..Len(paired_lines) :
                 /\ paired_lines[k].lhs # None
                 /\ paired_lines[k].lhs[1].num \notin DOMAIN lhs_line_styles}}
    \cup
    {[line |-> rhs_lines[paired_lines[i].rhs[1].num + 1],
      styled |-> paired_lines[i].rhs[1].styled] :
        i \in {k \in 1..Len(paired_lines) :
                 /\ paired_lines[k].rhs # None
                 /\ paired_lines[k].rhs[1].num \notin DOMAIN rhs_line_styles}}

\* The pair at the head of the inner loop has a line with a styles entry.
HeadHasStyles ==
    /\ aligned_lines # <<>>
    /\ \/ \E k \in DOMAIN Head(aligned_lines)[1] :
             Head(aligned_lines)[1][k] \in DOMAIN lhs_line_styles
       \/ \E k \in DOMAIN Head(aligned_lines)[2] :
             Head(aligned_lines)[2][k] \in DOMAIN rhs_line_styles

\* C6 as stated: every line without a styles entry, the empty line too, is
\* rendered as a single untagged run holding the whole line, and no such
\* line makes the call fail.
C6_SingleRunEveryLine ==
    /\ \A u \in UnstyledSides : u.styled = <<Run(u.line, <<>>)>>
    /\ pc = "panic_line" => HeadHasStyles

\* C6 as amended: a line without a styles entry is rendered as a single
\* untagged run holding the whole line when it is not empty and as no run at
\* all when it is empty, and no such line makes the call fail.
C6_EmptyStyleDefault ==
    /\ \A u \in UnstyledSides : u.styled = UnstyledRuns(u.line)
    /\ pc = "panic_line" => HeadHasStyles

C6_Witness ==
    /\ pc = "done"
    /\ DOMAIN lhs_line_styles = {0}
    /\ rhs_line_styles = EmptyMap
    /\ \E i \in 1..Len(paired_lines) :
          /\ paired_lines[i].lhs # None
          /\ paired_lines[i].lhs[1].num = 1
          /\ paired_lines[i].lhs[1].styled = <<Run(lhs_lines[2], <<>>)>>
          /\ paired_lines[i].rhs # None
          /\ rhs_lines[paired_lines[i].rhs[1].num + 1] = <<>>
          /\ paired_lines[i].rhs[1].styled = <<>>

\* C8: the output channel gets at most one write; the write is there only
\* once every hunk is processed, and is the document rendered from all the
\* rows; a call that ends has written once, and a call the rendering engine
\* (or anything before it) aborted has written nothing.
C8_OneTerminalWrite ==
    /\ Len(stdout) <= 1
    /\ stdout # <<>> =>
          /\ pc = "done"
          /\ AllHunksProcessed
          /\ stdout[1].paired_lines = paired_lines
          /\ Len(stdout[1].paired_lines) = Len(Flatten(aligned_log))
    /\ pc = "done" => Len(stdout) = 1
    /\ pc \in {"panic_render", "panic_line"} => stdout = <<>>

C8_Witness ==
    /\ pc = "done"
    /\ Len(hunks) = 2
    /\ Len(stdout) = 1
    /\ Len(stdout[1].paired_lines) = 3

====
